---- MODULE Spec2Model ----
(***************************************************************************)
(* A model of hecrj/llama-server: the artifact cache (src/cache.rs), the   *)
(* install orchestration and the Build / Backends value types (src/lib.rs) *)
(* and the streaming downloader (src/http.rs).                             *)
(*                                                                         *)
(* Representation choices.                                                 *)
(*  - A Rust String / &str that the code parses or formats character by    *)
(*    character (the text of a Build) is a sequence of one-character       *)
(*    strings.  A directory or file name is a sequence of tokens, so that  *)
(*    trim_start_matches("backend-"), join("-") and format!("{}.zip") act  *)
(*    on it as they do on the Rust string.                                 *)
(*  - A u32 is a pair <<hi, lo>> of 16-bit limbs (value hi * 2^16 + lo),   *)
(*    so that the whole range 0 .. 2^32 - 1 and the overflow of            *)
(*    str::parse::<u32> are represented.                                   *)
(***************************************************************************)
EXTENDS Integers, Sequences, FiniteSets, TLC

(***************************************************************************)
(* Bounds of the model.                                                    *)
(***************************************************************************)
\* longest text handed to Build::from_str
MaxTextLen == 3
\* limbs 0 .. MaxSmall and 2^16 - 1 - MaxSmall .. 2^16 - 1 are sampled
MaxSmall == 3
\* longest component list handed to Instance::new
MaxComps == 3

(***************************************************************************)
(* u32 arithmetic on 16-bit limbs.                                         *)
(***************************************************************************)
LimbBase == 2 ^ 16

U32Zero == <<0, 0>>

U32Less(a, b) == a[1] < b[1] \/ (a[1] = b[1] /\ a[2] < b[2])

\* v / 10 and v % 10
U32DivTen(v) == <<v[1] \div 10, (((v[1] % 10) * LimbBase) + v[2]) \div 10>>
U32ModTen(v) == (((v[1] % 10) * LimbBase) + v[2]) % 10

\* v.checked_mul(10)?.checked_add(d): an error when the result exceeds u32::MAX
U32MulTenAdd(v, d) ==
  LET lo == (v[2] * 10) + d
      hi == (v[1] * 10) + (lo \div LimbBase)
  IN  IF hi >= LimbBase
        THEN [ok |-> FALSE, error |-> "PosOverflow"]
        ELSE [ok |-> TRUE, value |-> <<hi, lo % LimbBase>>]

(***************************************************************************)
(* Text: decimal digits, the Display of u32 and str::parse::<u32>.         *)
(***************************************************************************)
Digits == <<"0", "1", "2", "3", "4", "5", "6", "7", "8", "9">>

IsDigit(c) == \E i \in 1..10 : Digits[i] = c

\* char::to_digit(10)
DigitValue(c) == (CHOOSE i \in 1..10 : Digits[i] = c) - 1

RECURSIVE U32ToString(_)
\* <u32 as Display>::fmt: the decimal digits, most significant first
U32ToString(v) ==
  IF v[1] = 0 /\ v[2] < 10
    THEN <<Digits[v[2] + 1]>>
    ELSE Append(U32ToString(U32DivTen(v)), Digits[U32ModTen(v) + 1])

RECURSIVE ParseDigits(_, _)
\* the digit loop of u32::from_str_radix(_, 10): InvalidDigit on a character
\* that is no digit, PosOverflow past u32::MAX
ParseDigits(s, acc) ==
  IF s = <<>> THEN [ok |-> TRUE, value |-> acc]
  ELSE IF ~IsDigit(Head(s)) THEN [ok |-> FALSE, error |-> "InvalidDigit"]
  ELSE LET next == U32MulTenAdd(acc, DigitValue(Head(s)))
       IN  IF ~next.ok THEN next ELSE ParseDigits(Tail(s), next.value)

\* str::parse::<u32>: empty input, a lone sign, a non-digit or an overflow is
\* an error; one leading "+" is accepted, a leading "-" is not (unsigned)
ParseU32(s) ==
  IF s = <<>> THEN [ok |-> FALSE, error |-> "Empty"]
  ELSE IF Len(s) = 1 /\ s[1] \in {"+", "-"}
    THEN [ok |-> FALSE, error |-> "InvalidDigit"]
  ELSE ParseDigits(IF s[1] = "+" THEN Tail(s) ELSE s, U32Zero)

RECURSIVE TrimStartMatches(_, _)
\* str::trim_start_matches(c): every leading repetition of c is removed
TrimStartMatches(s, c) ==
  IF s # <<>> /\ Head(s) = c THEN TrimStartMatches(Tail(s), c) ELSE s

StartsWith(s, c) == s # <<>> /\ Head(s) = c

(***************************************************************************)
(* Build (src/lib.rs): Display and FromStr.                                *)
(***************************************************************************)
ParseError == [ok |-> FALSE]

BuildToStringNoPrefix(build) == U32ToString(build)

\* impl fmt::Display for Build: write!(f, "b{}", self.0)
BuildToString(build) == <<"b">> \o U32ToString(build)

\* impl FromStr for Build
BuildFromStr(s) ==
  IF ~StartsWith(s, "b") THEN ParseError
  ELSE LET number == ParseU32(TrimStartMatches(s, "b"))
       IN  IF number.ok THEN [ok |-> TRUE, build |-> number.value] ELSE ParseError

(***************************************************************************)
(* Backends (src/lib.rs): a bitflags set over u32, and its platform        *)
(* filter.                                                                 *)
(***************************************************************************)
CUDA == 1
HIP == 2

\* Backends::empty() .. Backends::all()
BackendSets == 0 .. (CUDA + HIP)

\* target_os of the build of the library
Platforms == {"linux", "macos", "windows"}

\* Backends::contains(flag), flag a single bit
Contains(backends, flag) == (backends \div flag) % 2 = 1

\* self | flag
Union(backends, flag) == IF Contains(backends, flag) THEN backends ELSE backends + flag

AvailableAnywhere(os, backends) ==
  (IF Contains(backends, CUDA) THEN <<"Cuda">> ELSE <<>>)
    \o (IF Contains(backends, HIP) THEN <<"Hip">> ELSE <<>>)

\* Backends::available: the Backend values of the set, Cuda before Hip, and
\* none at all on macOS
Available(os, backends) ==
  IF os = "macos" THEN <<>>
  ELSE (IF Contains(backends, CUDA) THEN <<"Cuda">> ELSE <<>>)
         \o (IF Contains(backends, HIP) THEN <<"Hip">> ELSE <<>>)

RECURSIVE FoldFlags(_, _)
FoldFlags(list, acc) ==
  IF list = <<>> THEN acc
  ELSE FoldFlags(Tail(list),
                 Union(acc, IF Head(list) = "Cuda" THEN CUDA ELSE HIP))

\* the fold of Server::download over backends.available(): the normalized set
Normalized(os, backends) == FoldFlags(Available(os, backends), 0)

(***************************************************************************)
(* Artifact, Component and Instance (src/cache.rs).                        *)
(***************************************************************************)
Components == {"Server", "Cuda", "Hip"}

\* the match of Cache::download: Artifact::Server => Component::Server,
\* Artifact::Backend(b) => Component::Backend(b)
ComponentOf(artifact) ==
  CASE artifact = "ServerArtifact" -> "Server"
    [] artifact = "CudaArtifact" -> "Cuda"
    [] artifact = "HipArtifact" -> "Hip"

\* Artifact::Backend
BackendArtifact(backend) == IF backend = "Cuda" THEN "CudaArtifact" ELSE "HipArtifact"

RECURSIVE MapBackendArtifact(_)
MapBackendArtifact(list) ==
  IF list = <<>> THEN <<>>
  ELSE <<BackendArtifact(Head(list))>> \o MapBackendArtifact(Tail(list))

ArtifactsOfBackendsFirst(os, backends) ==
  MapBackendArtifact(Available(os, backends)) \o <<"ServerArtifact">>

\* [Artifact::Server].chain(backends.available().map(Artifact::Backend))
ArtifactsOf(os, backends) == <<"ServerArtifact">> \o MapBackendArtifact(Available(os, backends))

\* #[derive(PartialOrd, Ord)] on Component and Backend: declaration order
ComponentRank(c) ==
  CASE c = "Server" -> 0
    [] c = "Cuda" -> 1
    [] c = "Hip" -> 2

\* Component::directory
ComponentDirectory(c) ==
  CASE c = "Server" -> <<"server">>
    [] c = "Cuda" -> <<"backend-", "cuda">>
    [] c = "Hip" -> <<"backend-", "hip">>

\* Component::archive: format!("{}.zip", self.directory())
ComponentArchive(c) == ComponentDirectory(c) \o <<".zip">>

RECURSIVE ToSet(_)
ToSet(list) == IF list = <<>> THEN {} ELSE {Head(list)} \cup ToSet(Tail(list))

InstanceNewAsGiven(components) == components

RECURSIVE SortedByRank(_)
\* iteration of a BTreeSet<Component>: ascending, each member once
SortedByRank(set) ==
  IF set = {} THEN <<>>
  ELSE LET least == CHOOSE c \in set : \A d \in set : ComponentRank(c) <= ComponentRank(d)
       IN  <<least>> \o SortedByRank(set \ {least})

\* Instance::new: BTreeSet::from_iter(components), then insert(Server); the
\* set is kept as the sequence its iteration yields
InstanceNew(components) == SortedByRank(ToSet(components) \cup {"Server"})

RECURSIVE Join(_, _)
\* [String]::join(separator)
Join(names, separator) ==
  IF names = <<>> THEN <<>>
  ELSE IF Len(names) = 1 THEN names[1]
  ELSE names[1] \o <<separator>> \o Join(Tail(names), separator)

RECURSIVE MapDirectory(_)
MapDirectory(list) ==
  IF list = <<>> THEN <<>>
  ELSE <<ComponentDirectory(Head(list))>> \o MapDirectory(Tail(list))

RECURSIVE MapTrimmedDirectory(_)
MapTrimmedDirectory(list) ==
  IF list = <<>> THEN <<>>
  ELSE <<TrimStartMatches(ComponentDirectory(Head(list)), "backend-")>>
         \o MapTrimmedDirectory(Tail(list))

InstanceDirectoryOfLast(instance) == ComponentDirectory(instance[Len(instance)])

\* Instance::directory
InstanceDirectory(instance) == Join(MapTrimmedDirectory(instance), "-")

\* the file name link() joins to the composite directory
ExecutableName(os) == IF os = "windows" THEN "llama-server.exe" ELSE "llama-server"

\* the path link() returns, below the cache root: <build>/<composite>/<executable>
LinkPath(os, build, components) ==
  <<BuildToString(build), InstanceDirectory(InstanceNew(components)), ExecutableName(os)>>

(***************************************************************************)
(* The environment: the builds the callers ask for, the archive each       *)
(* artifact's URL serves, and the number of chunks its body arrives in.    *)
(***************************************************************************)
\* most install and delete calls started in one behaviour
MaxCalls == 2
\* most injected failures and abandoned calls in one behaviour
MaxFaults == 1
\* chunks in which the body of a download arrives
ArchiveChunks == 2

\* Build::locked(2) and Build::locked(10): "b10" sorts before "b2" as text
Builds == {<<0, 2>>, <<0, 10>>}

Procs == {1, 2}

\* the zip archive of each artifact: its entries, in archive order
ArchiveEntries(c) ==
  CASE c = "Server" -> <<[name |-> "llama-server", kind |-> "file"],
                         [name |-> "libggml", kind |-> "file"]>>
    [] c = "Cuda" -> <<[name |-> "libggml-cuda", kind |-> "file"],
                       [name |-> "kernels", kind |-> "dir"]>>
    [] c = "Hip" -> <<[name |-> "libggml", kind |-> "file"],
                      [name |-> "libggml-hip", kind |-> "file"]>>

\* what extracting the whole archive of c writes: every entry, with its origin
ArchiveContents(c) ==
  {[name |-> ArchiveEntries(c)[i].name, kind |-> ArchiveEntries(c)[i].kind, from |-> c] :
     i \in 1..Len(ArchiveEntries(c))}

\* the body the URL of an artifact serves: its chunks, in order
WholeArchive == [i \in 1..ArchiveChunks |-> i]

(***************************************************************************)
(* The file system below the cache root.  disk[b] is the directory         *)
(* <root>/<Build b>: whether it exists, and what each name in it holds.    *)
(***************************************************************************)
CompositeNames == {InstanceDirectory(SortedByRank(S \cup {"Server"})) : S \in SUBSET Components}

Names == {ComponentDirectory(c) : c \in Components}
           \cup {ComponentArchive(c) : c \in Components}
           \cup CompositeNames

\* an entry of a build directory: nothing, an archive file (what it holds,
\* chunk by chunk from its first byte, 0 where nothing was written) or a
\* directory (its entries)
Absent == [kind |-> "absent", chunks |-> <<>>, entries |-> {}]
FileOf(chunks) == [kind |-> "file", chunks |-> chunks, entries |-> {}]
DirOf(entries) == [kind |-> "dir", chunks |-> <<>>, entries |-> entries]

\* a write of `chunk` at offset `pos` of a file holding `content`
WriteAt(content, pos, chunk) ==
  [i \in 1..(IF Len(content) > pos THEN Len(content) ELSE pos) |->
     IF i = pos THEN chunk ELSE IF i <= Len(content) THEN content[i] ELSE 0]

\* the composite directories that only link() makes: those that are not the
\* extracted directory of a component as well
LinkedNames == CompositeNames \ {ComponentDirectory(c) : c \in Components}

NoLinked == [n \in LinkedNames |-> Absent]

NoBuildDir == [exists |-> FALSE, at |-> [n \in Names |-> Absent]]
EmptyBuildDir == [exists |-> TRUE, at |-> [n \in Names |-> Absent]]

NoEntry == [name |-> "", kind |-> "none", from |-> ""]

NoLocal ==
  [artifacts |-> <<>>, components |-> <<>>, downloaded |-> 0, xi |-> 0,
   lcomps |-> <<>>, todo |-> {}, cur |-> NoEntry, orphan |-> FALSE,
   hit |-> FALSE, fetched |-> FALSE, retried |-> FALSE, prior |-> {},
   start |-> 0, written |-> 0, links |-> 0, made |-> FALSE,
   relink |-> FALSE, refetch |-> FALSE, before |-> NoLinked, seen |-> {}]

NoCall == [op |-> "none", build |-> U32Zero, backends |-> 0]

NoServer == [build |-> U32Zero, backends |-> 0, executable |-> <<>>]

NoResult ==
  [op |-> "none", build |-> U32Zero, backends |-> 0, ok |-> FALSE,
   server |-> NoServer, listed |-> <<>>, requests |-> 0, events |-> <<>>,
   components |-> <<>>, prior |-> {}, removed |-> {},
   stage |-> "none", artifact |-> "none", written |-> 0, links |-> 0,
   made |-> FALSE, relink |-> FALSE, abandoned |-> FALSE, before |-> NoLinked,
   seen |-> {}, root |-> {}]

VARIABLES
  platform,   \* cfg!(target_os) of the build of the library
  disk,       \* the cache root: disk[b] is <root>/<b>
  pc,         \* pc[p]: where caller p's call stands
  call,       \* call[p]: the operation and its arguments
  local,      \* local[p]: the locals of the call
  requests,   \* requests[p]: HTTP requests the current call has sent
  events,     \* events[p]: the Stage events the current call has emitted
  ret,        \* ret[p]: what the last call returned, until the next one starts
  installed,  \* history: the installs that returned Ok since the build's last delete
  extracts,   \* history: extractions started into <b>/<component> since the last delete
  xfailed,    \* history: <<b, c>> whose latest download failed in extraction
  ffailed,    \* history: <<b, c>> whose latest download ended during the fetch
  calls,      \* install and delete calls started
  faults,     \* failures injected and calls abandoned
  mode,       \* which part of the library the behaviour exercises
  text,       \* Build text: the string under Build::from_str
  number,     \* Build text: the u32 of the Build under Display
  parsed,     \* Build text: what Build::from_str returned
  given,      \* Instance: two component lists handed to link()
  resolved    \* Instance: the paths link() resolves for them

vars == <<platform, disk, pc, call, local, requests, events, ret, installed,
          extracts, xfailed, ffailed, calls, faults, mode, text, number, parsed, given,
          resolved>>

cacheVars == <<disk, pc, call, local, requests, events, ret, installed,
               extracts, xfailed, ffailed, calls, faults>>

pureVars == <<mode, text, number, parsed, given, resolved>>

NotParsed == [ok |-> FALSE, build |-> U32Zero]

InitCache ==
  /\ disk = [b \in Builds |-> NoBuildDir]
  /\ pc = [p \in Procs |-> "idle"]
  /\ call = [p \in Procs |-> NoCall]
  /\ local = [p \in Procs |-> NoLocal]
  /\ requests = [p \in Procs |-> 0]
  /\ events = [p \in Procs |-> <<>>]
  /\ ret = [p \in Procs |-> NoResult]
  /\ installed = {}
  /\ extracts = [b \in Builds |-> [c \in Components |-> 0]]
  /\ xfailed = {}
  /\ ffailed = {}
  /\ calls = 0
  /\ faults = 0

InitPure ==
  /\ mode = "cache"
  /\ text = <<>>
  /\ number = U32Zero
  /\ parsed = NotParsed
  /\ given = <<>>
  /\ resolved = <<>>

Init ==
  /\ platform \in {"linux", "macos"}
  /\ InitCache
  /\ InitPure

(***************************************************************************)
(* File-system primitives.                                                 *)
(***************************************************************************)
At(b, name) == IF disk[b].exists THEN disk[b].at[name] ELSE Absent

\* fs::try_exists
TryExists(b, name) == At(b, name).kind # "absent"

Put(b, name, entry) == [disk EXCEPT ![b].at[name] = entry]

HasName(entries, name) == \E e \in entries : e.name = name

(***************************************************************************)
(* The call of caller p.                                                   *)
(***************************************************************************)
Artifact(p) == Head(local[p].artifacts)
Comp(p) == ComponentOf(Artifact(p))
CompDir(p) == ComponentDirectory(Comp(p))
CompZip(p) == ComponentArchive(Comp(p))
LinkDir(p) == InstanceDirectory(InstanceNew(local[p].components))

\* the Err a call returns, with where the call stood (the operation that
\* failed, and the artifact under download if any) and what it had done
ErrOf(p, sent) ==
  [NoResult EXCEPT !.op = call[p].op, !.build = call[p].build,
                   !.backends = call[p].backends,
                   !.requests = requests[p] + sent, !.events = events[p],
                   !.components = local[p].components,
                   !.stage = pc[p],
                   !.artifact = IF local[p].artifacts = <<>> THEN "none" ELSE Artifact(p),
                   !.written = local[p].written, !.links = local[p].links,
                   !.made = local[p].made, !.relink = local[p].relink,
                   !.before = local[p].before]

\* the call of p ends with `result`, which keeps, beside what the call
\* returned, its arguments and what it was observed to do
Finish(p, result) ==
  /\ pc' = [pc EXCEPT ![p] = "idle"]
  /\ ret' = [ret EXCEPT ![p] = result]
  /\ call' = [call EXCEPT ![p] = NoCall]
  /\ local' = [local EXCEPT ![p] = NoLocal]
  /\ requests' = [requests EXCEPT ![p] = 0]
  /\ events' = [events EXCEPT ![p] = <<>>]

\* the call of p moves to `next` with its locals changed to `loc`
Goto(p, next, loc) ==
  /\ pc' = [pc EXCEPT ![p] = next]
  /\ local' = [local EXCEPT ![p] = loc]
  /\ UNCHANGED <<call, ret>>

\* an error of the file system or the archive, returned by `?`
Raise(p) ==
  /\ Finish(p, ErrOf(p, 0))
  /\ UNCHANGED <<disk, installed, extracts, calls, faults>>

(***************************************************************************)
(* Server::download(build, backends): the install operation.               *)
(***************************************************************************)
\* the call starts: Cache::new(build) and the artifact iterator
Install(p, b, S) ==
  /\ pc[p] = "idle"
  /\ calls < MaxCalls
  /\ calls' = calls + 1
  /\ pc' = [pc EXCEPT ![p] = "d_mkdir"]
  /\ call' = [call EXCEPT ![p] = [op |-> "install", build |-> b, backends |-> S]]
  /\ local' = [local EXCEPT ![p] =
       [NoLocal EXCEPT !.artifacts = ArtifactsOf(platform, S),
                       !.prior = {i.executable :
                                    i \in {j \in installed : j.build = b /\ j.backends = S}},
                       !.relink = /\ ret[p].op = "install"
                                  /\ ~ret[p].ok
                                  /\ ret[p].build = b
                                  /\ ret[p].backends = S
                                  /\ ret[p].made,
                       !.before = [n \in LinkedNames |-> At(b, n)]]]
  /\ ret' = [ret EXCEPT ![p] = NoResult]
  /\ UNCHANGED <<platform, disk, requests, events, installed, extracts, xfailed, ffailed, faults>>
  /\ UNCHANGED pureVars

FileCreateAppend(old) == IF old.kind = "file" THEN old ELSE FileOf(<<>>)

\* fs::File::create: the file at the path, created or truncated to nothing
FileCreate(old) == FileOf(<<>>)

CacheHitOnArchive(b, c) == TryExists(b, ComponentArchive(c))

CacheHitNever(b, c) == FALSE

\* the cache-hit test of Cache::download
CacheHit(b, c) == TryExists(b, ComponentDirectory(c))

\* Cache::download: fs::create_dir_all(&self.path)
DownloadMkdir(p) ==
  /\ pc[p] = "d_mkdir"
  /\ disk' = [disk EXCEPT ![call[p].build] = IF @.exists THEN @ ELSE EmptyBuildDir]
  /\ Goto(p, "d_exists",
          [local[p] EXCEPT !.retried = (<<call[p].build, Comp(p)>> \in xfailed),
                           !.refetch = (<<call[p].build, Comp(p)>> \in ffailed),
                           !.hit = FALSE, !.fetched = FALSE,
                           !.downloaded = 0, !.xi = 0, !.start = 0, !.written = 0])
  /\ ffailed' = ffailed \ {<<call[p].build, Comp(p)>>}
  /\ UNCHANGED <<platform, requests, events, installed, extracts, xfailed, calls, faults>>
  /\ UNCHANGED pureVars

\* Cache::download: if !fs::try_exists(self.path.join(component.directory()))
DownloadExists(p) ==
  /\ pc[p] = "d_exists"
  /\ Goto(p, IF CacheHit(call[p].build, Comp(p)) THEN "d_ok" ELSE "d_create",
          [local[p] EXCEPT !.hit = TryExists(call[p].build, CompDir(p))])
  /\ UNCHANGED <<platform, disk, requests, events, installed, extracts, xfailed, ffailed, calls, faults>>
  /\ UNCHANGED pureVars

\* Cache::download: fs::File::create(archive); the handle it returns writes
\* from the end of the file as created, which is its first byte
DownloadCreate(p) ==
  /\ pc[p] = "d_create"
  /\ LET b == call[p].build
         old == At(b, CompZip(p))
     IN  IF ~disk[b].exists \/ old.kind = "dir"
           THEN Raise(p) /\ UNCHANGED <<xfailed, ffailed>>
           ELSE /\ disk' = Put(b, CompZip(p), FileCreate(old))
                /\ Goto(p, "d_send",
                        [local[p] EXCEPT !.orphan = FALSE, !.written = 0,
                                         !.start = Len(FileCreate(old).chunks)])
                /\ UNCHANGED <<requests, events, installed, extracts, xfailed, ffailed, calls, faults>>
  /\ UNCHANGED platform
  /\ UNCHANGED pureVars

Emit(p, downloaded) ==
  Append(events[p], [artifact |-> Artifact(p), downloaded |-> downloaded])

\* http::download: client().get(url).send(), then the first Progress
DownloadSend(p) ==
  /\ pc[p] = "d_send"
  /\ requests' = [requests EXCEPT ![p] = @ + 1]
  /\ events' = [events EXCEPT ![p] = Emit(p, 0)]
  /\ Goto(p, "d_chunk", [local[p] EXCEPT !.fetched = TRUE, !.downloaded = 0,
                                           !.written = 0])
  /\ UNCHANGED <<platform, disk, installed, extracts, xfailed, ffailed, calls, faults>>
  /\ UNCHANGED pureVars

\* http::download: download.chunk(): the next chunk and its Progress, or the end
DownloadChunk(p) ==
  /\ pc[p] = "d_chunk"
  /\ IF local[p].downloaded < ArchiveChunks
       THEN /\ events' = [events EXCEPT ![p] = Emit(p, local[p].downloaded + 1)]
            /\ Goto(p, "d_write", [local[p] EXCEPT !.downloaded = @ + 1])
       ELSE /\ events' = events
            /\ Goto(p, "d_flush", local[p])
  /\ UNCHANGED <<platform, disk, requests, installed, extracts, xfailed, ffailed, calls, faults>>
  /\ UNCHANGED pureVars

\* http::download: writer.write_all(&chunk), through the handle File::create
\* returned, at the offset the handle has reached: it reaches the file at
\* the path unless that file was removed since (the handle then writes to an
\* unlinked file).  The io::BufWriter between the two is taken as writing
\* through.
DownloadWrite(p) ==
  /\ pc[p] = "d_write"
  /\ LET b == call[p].build
         f == At(b, CompZip(p))
         pos == local[p].start + local[p].written + 1
     IN  disk' = IF f.kind = "file" /\ ~local[p].orphan
                   THEN Put(b, CompZip(p), FileOf(WriteAt(f.chunks, pos, local[p].downloaded)))
                   ELSE disk
  /\ Goto(p, "d_chunk", [local[p] EXCEPT !.written = @ + 1])
  /\ UNCHANGED <<platform, requests, events, installed, extracts, xfailed, ffailed, calls, faults>>
  /\ UNCHANGED pureVars

\* http::download: writer.flush()
DownloadFlush(p) ==
  /\ pc[p] = "d_flush"
  /\ Goto(p, "x_open", local[p])
  /\ UNCHANGED <<platform, disk, requests, events, installed, extracts, xfailed, ffailed, calls, faults>>
  /\ UNCHANGED pureVars

\* the end of the archive, where zip::ZipArchive::new looks for the central
\* directory, is the end of the body
EndsWhole(chunks) == chunks # <<>> /\ chunks[Len(chunks)] = ArchiveChunks

Bump(b, c) == [extracts EXCEPT ![b][c] = IF @ < 2 THEN @ + 1 ELSE @]

\* Cache::extract, in task::spawn_blocking: File::open(archive) and
\* zip::ZipArchive::new, which needs the end of the archive, then the start of
\* ZipArchive::extract, which creates the directory
ExtractOpen(p) ==
  /\ pc[p] = "x_open"
  /\ LET b == call[p].build
         f == At(b, CompZip(p))
         d == At(b, CompDir(p))
     IN  IF f.kind # "file" \/ ~EndsWhole(f.chunks) \/ d.kind = "file"
           THEN /\ Raise(p)
                /\ xfailed' = xfailed \cup {<<b, Comp(p)>>}
                /\ UNCHANGED ffailed
           ELSE /\ disk' = Put(b, CompDir(p), IF d.kind = "dir" THEN d ELSE DirOf({}))
                /\ extracts' = Bump(b, Comp(p))
                /\ Goto(p, "x_entry", [local[p] EXCEPT !.xi = 1, !.orphan = FALSE])
                /\ UNCHANGED <<requests, events, installed, xfailed, ffailed, calls, faults>>
  /\ UNCHANGED platform
  /\ UNCHANGED pureVars

\* ZipArchive::extract: the next entry of the archive is read through the
\* handle extract opened and written below the directory, over what is there.
\* An archive truncated under the reader yields an error, or the entry when
\* its bytes were already buffered; a removed one stays readable.
ExtractEntry(p) ==
  /\ pc[p] = "x_entry"
  /\ LET b == call[p].build
         c == Comp(p)
         f == At(b, CompZip(p))
         d == At(b, CompDir(p))
         intact == local[p].orphan \/ (f.kind = "file" /\ f.chunks = WholeArchive)
         entry == ArchiveEntries(c)[local[p].xi]
         fails == /\ Raise(p)
                  /\ xfailed' = xfailed \cup {<<b, c>>}
                  /\ UNCHANGED ffailed
         writes == /\ disk' = Put(b, CompDir(p),
                                  DirOf({e \in d.entries : e.name # entry.name}
                                          \cup {[name |-> entry.name, kind |-> entry.kind,
                                                 from |-> c]}))
                   /\ Goto(p, "x_entry", [local[p] EXCEPT !.xi = @ + 1])
                   /\ UNCHANGED <<requests, events, installed, extracts, xfailed, ffailed, calls, faults>>
     IN  IF local[p].xi > Len(ArchiveEntries(c))
           THEN /\ Goto(p, "d_remove", [local[p] EXCEPT !.xi = 0, !.orphan = FALSE])
                /\ UNCHANGED <<disk, requests, events, installed, extracts, xfailed, ffailed, calls, faults>>
           ELSE IF d.kind # "dir" THEN fails
           ELSE IF intact THEN writes
           ELSE fails \/ writes
  /\ UNCHANGED platform
  /\ UNCHANGED pureVars

\* q holds an open handle on the archive of component c of build b: the one
\* File::create returned, or the one Cache::extract opened
HoldsArchive(q, b, c) ==
  /\ pc[q] \in {"d_send", "d_chunk", "d_write", "d_flush", "x_entry"}
  /\ call[q].build = b
  /\ Comp(q) = c

\* Cache::download: fs::remove_file(archive), an error when it is not there
DownloadRemove(p) ==
  /\ pc[p] = "d_remove"
  /\ LET b == call[p].build
     IN  IF At(b, CompZip(p)).kind # "file"
           THEN Raise(p) /\ UNCHANGED <<xfailed, ffailed>>
           ELSE /\ disk' = Put(b, CompZip(p), Absent)
                /\ pc' = [pc EXCEPT ![p] = "d_ok"]
                /\ local' = [q \in Procs |->
                               IF q # p /\ HoldsArchive(q, b, Comp(p))
                                 THEN [local[q] EXCEPT !.orphan = TRUE]
                                 ELSE local[q]]
                /\ UNCHANGED <<call, ret, requests, events, installed, extracts,
                               xfailed, ffailed, calls, faults>>
  /\ UNCHANGED platform
  /\ UNCHANGED pureVars

\* Cache::download returns Ok(component); Server::download pushes it and
\* takes the next artifact, or goes on to link
DownloadOk(p) ==
  /\ pc[p] = "d_ok"
  /\ xfailed' = xfailed \ {<<call[p].build, Comp(p)>>}
  /\ UNCHANGED ffailed
  /\ Goto(p, IF Tail(local[p].artifacts) = <<>> THEN "l_exists" ELSE "d_mkdir",
          [local[p] EXCEPT !.components = Append(@, Comp(p)),
                           !.artifacts = Tail(@),
                           !.hit = FALSE, !.fetched = FALSE, !.retried = FALSE,
                           !.refetch = FALSE,
                           !.downloaded = 0, !.start = 0, !.written = 0,
                           !.links = IF Tail(local[p].artifacts) = <<>> THEN @ + 1 ELSE @])
  /\ UNCHANGED <<platform, disk, requests, events, installed, extracts, calls, faults>>
  /\ UNCHANGED pureVars

(***************************************************************************)
(* Cache::link and the return of Server::download.                         *)
(***************************************************************************)
\* Ok(Self { build, backends: <the fold over available()>, executable })
Return(p) ==
  LET b == call[p].build
      S == call[p].backends
      exe == LinkPath(platform, b, local[p].components)
  IN  /\ Finish(p, [NoResult EXCEPT
                      !.op = "install", !.build = b, !.backends = S, !.ok = TRUE,
                      !.server = [build |-> b, backends |-> Normalized(platform, S),
                                  executable |-> exe],
                      !.requests = requests[p], !.events = events[p],
                      !.components = local[p].components, !.prior = local[p].prior,
                      !.links = local[p].links, !.made = local[p].made,
                      !.relink = local[p].relink, !.before = local[p].before,
                      !.seen = local[p].seen])
      /\ installed' = installed \cup {[build |-> b, backends |-> S, executable |-> exe]}
      /\ UNCHANGED <<disk, extracts, xfailed, ffailed, calls, faults>>

\* Cache::link: if !fs::try_exists(&path)
LinkExists(p) ==
  /\ pc[p] = "l_exists"
  /\ IF TryExists(call[p].build, LinkDir(p))
       THEN Return(p)
       ELSE /\ Goto(p, "l_mkdir", local[p])
            /\ UNCHANGED <<disk, requests, events, installed, extracts, xfailed, ffailed, calls, faults>>
  /\ UNCHANGED platform
  /\ UNCHANGED pureVars

\* Cache::link: fs::create_dir(&path), an error when the path exists
LinkMkdir(p) ==
  /\ pc[p] = "l_mkdir"
  /\ LET b == call[p].build
     IN  IF ~disk[b].exists \/ TryExists(b, LinkDir(p))
           THEN Raise(p) /\ UNCHANGED <<xfailed, ffailed>>
           ELSE /\ disk' = Put(b, LinkDir(p), DirOf({}))
                /\ Goto(p, "l_readdir",
                        [local[p] EXCEPT !.lcomps = InstanceNew(local[p].components),
                                         !.made = TRUE])
                /\ UNCHANGED <<requests, events, installed, extracts, xfailed, ffailed, calls, faults>>
  /\ UNCHANGED platform
  /\ UNCHANGED pureVars

\* Cache::link: for component in instance.components: fs::read_dir of its
\* directory; after the last one, Ok(path.join(executable))
LinkReadDir(p) ==
  /\ pc[p] = "l_readdir"
  /\ IF local[p].lcomps = <<>>
       THEN Return(p) /\ UNCHANGED platform
       ELSE LET d == At(call[p].build, ComponentDirectory(Head(local[p].lcomps)))
            IN  IF d.kind # "dir"
                  THEN Raise(p) /\ UNCHANGED <<platform, xfailed, ffailed>>
                  ELSE /\ Goto(p, "l_entry",
                               [local[p] EXCEPT !.todo = d.entries, !.lcomps = Tail(@),
                                                !.seen = @ \cup d.entries])
                       /\ UNCHANGED <<platform, disk, requests, events, installed,
                                      extracts, xfailed, ffailed, calls, faults>>
  /\ UNCHANGED pureVars

IsFileOrDir(e) == TRUE

\* entry.file_type().is_file()
IsFile(e) == e.kind = "file"

\* Cache::link: the next entry of the component, in the order read_dir yields:
\* skipped unless it is a file whose name the composite does not hold yet
LinkEntry(p) ==
  /\ pc[p] = "l_entry"
  /\ IF local[p].todo = {}
       THEN Goto(p, "l_readdir", local[p])
       ELSE \E e \in local[p].todo :
              LET rest == [local[p] EXCEPT !.todo = @ \ {e}]
                  dest == At(call[p].build, LinkDir(p))
              IN  IF ~IsFile(e) \/ HasName(dest.entries, e.name)
                    THEN Goto(p, "l_entry", rest)
                    ELSE Goto(p, "l_link", [rest EXCEPT !.cur = e])
  /\ UNCHANGED <<platform, disk, requests, events, installed, extracts, xfailed, ffailed, calls, faults>>
  /\ UNCHANGED pureVars

\* Cache::link: fs::hard_link(entry_path, dest_path), an error when the
\* destination exists
LinkHardLink(p) ==
  /\ pc[p] = "l_link"
  /\ LET b == call[p].build
         dest == At(b, LinkDir(p))
     IN  IF dest.kind # "dir" \/ HasName(dest.entries, local[p].cur.name)
           THEN Raise(p) /\ UNCHANGED <<xfailed, ffailed>>
           ELSE /\ disk' = Put(b, LinkDir(p), DirOf(dest.entries \cup {local[p].cur}))
                /\ Goto(p, "l_entry", [local[p] EXCEPT !.cur = NoEntry])
                /\ UNCHANGED <<requests, events, installed, extracts, xfailed, ffailed, calls, faults>>
  /\ UNCHANGED platform
  /\ UNCHANGED pureVars

(***************************************************************************)
(* Server::list and Server::delete.                                        *)
(***************************************************************************)
\* what fs::read_dir(root()) can yield: the build directories, by name
RootEntries ==
  {[name |-> BuildToString(b), kind |-> "dir"] : b \in {x \in Builds : disk[x].exists}}

\* what the cache root holds that the library did not put there: a file
\* whose name reads as a Build, and a directory whose name does not
ForeignEntries ==
  {[name |-> <<"b", "7">>, kind |-> "file"], [name |-> <<"x">>, kind |-> "dir"]}

\* the entries as the loop of Cache::list reads them: the file type of each
\* and what its name parses to, computed once for an entry
ReadDir(entries) ==
  {[name |-> e.name, kind |-> e.kind, parsed |-> BuildFromStr(e.name)] : e \in entries}

RECURSIVE Orderings(_)
\* the orders in which read_dir may yield a set of entries
Orderings(S) ==
  IF S = {} THEN {<<>>}
  ELSE UNION {{<<e>> \o rest : rest \in Orderings(S \ {e})} : e \in S}

RECURSIVE ListBuildsButLast(_)
ListBuildsButLast(order) ==
  IF Len(order) <= 1 THEN <<>>
  ELSE LET build == Head(order).parsed
       IN  (IF Head(order).kind = "dir" /\ build.ok THEN <<build.build>> ELSE <<>>)
             \o ListBuildsButLast(Tail(order))

RECURSIVE ListBuildsOfAnyKind(_)
ListBuildsOfAnyKind(order) ==
  IF order = <<>> THEN <<>>
  ELSE LET build == Head(order).parsed
       IN  (IF build.ok THEN <<build.build>> ELSE <<>>)
             \o ListBuildsOfAnyKind(Tail(order))

RECURSIVE ListBuilds(_)
\* the loop of Cache::list over the entries in the order given, and the map
\* of Server::list: entries that are no directory or whose name is no Build
\* are skipped, the others pushed in that order
ListBuilds(order) ==
  IF order = <<>> THEN <<>>
  ELSE LET build == Head(order).parsed
       IN  (IF Head(order).kind = "dir" /\ build.ok THEN <<build.build>> ELSE <<>>)
             \o ListBuilds(Tail(order))

\* Server::list, from start to return, over the build directories and what
\* else the cache root holds; one step for each list the enumeration of the
\* root can make it return
List(p) ==
  /\ pc[p] = "idle"
  /\ LET root == RootEntries \cup ForeignEntries
     IN  \E listed \in {ListBuilds(order) : order \in Orderings(ReadDir(root))} :
           ret' = [ret EXCEPT ![p] =
                     [NoResult EXCEPT !.op = "list", !.ok = TRUE,
                                      !.listed = listed, !.root = root]]
  /\ UNCHANGED <<platform, disk, pc, call, local, requests, events, installed,
                 extracts, xfailed, ffailed, calls, faults>>
  /\ UNCHANGED pureVars

RemoveDirContents(dir) == EmptyBuildDir

\* fs::remove_dir_all: the directory and everything below it
RemoveDirAll(dir) == NoBuildDir

\* Server::delete(build), from start to return: Cache::new(build).delete()
Delete(p, b) ==
  /\ pc[p] = "idle"
  /\ calls < MaxCalls
  /\ calls' = calls + 1
  /\ installed' = {i \in installed : i.build # b}
  /\ xfailed' = {x \in xfailed : x[1] # b}
  /\ ffailed' = {x \in ffailed : x[1] # b}
  /\ \/ /\ disk[b].exists
        /\ disk' = [disk EXCEPT ![b] = RemoveDirAll(@)]
        /\ extracts' = [extracts EXCEPT ![b] = [c \in Components |-> 0]]
        /\ ret' = [ret EXCEPT ![p] =
                     [NoResult EXCEPT !.op = "delete", !.build = b, !.ok = TRUE,
                                      !.removed = {n \in Names : TryExists(b, n)}]]
        /\ UNCHANGED faults
     \/ /\ ~disk[b].exists
        /\ ret' = [ret EXCEPT ![p] = [NoResult EXCEPT !.op = "delete", !.build = b]]
        /\ UNCHANGED <<disk, extracts, faults>>
     \/ /\ disk[b].exists
        /\ faults < MaxFaults
        /\ faults' = faults + 1
        /\ ret' = [ret EXCEPT ![p] = [NoResult EXCEPT !.op = "delete", !.build = b]]
        /\ UNCHANGED <<disk, extracts>>
  /\ UNCHANGED <<platform, pc, call, local, requests, events>>
  /\ UNCHANGED pureVars

(***************************************************************************)
(* Failures injected by the environment, and calls the caller abandons.    *)
(***************************************************************************)
\* p stands before an operation of the network or the file system
CanFail(p) ==
  \/ pc[p] \in {"d_mkdir", "d_exists", "d_create", "d_send", "d_chunk", "d_write",
                "d_flush", "x_open", "d_remove", "l_exists", "l_mkdir", "l_link"}
  \/ pc[p] = "x_entry" /\ local[p].xi <= Len(ArchiveEntries(Comp(p)))
  \/ pc[p] = "l_readdir" /\ local[p].lcomps # <<>>
  \/ pc[p] = "l_entry" /\ local[p].todo # {}

\* http::download of p is under way: from the request to the flush
InFetch(p) == pc[p] \in {"d_send", "d_chunk", "d_write", "d_flush"}

EndedInFetch(p) ==
  IF InFetch(p) THEN ffailed \cup {<<call[p].build, Comp(p)>>} ELSE ffailed

FailThenLink(p) ==
  /\ CanFail(p)
  /\ faults < MaxFaults
  /\ faults' = faults + 1
  /\ Goto(p, "l_exists", [local[p] EXCEPT !.artifacts = <<>>, !.links = @ + 1])
  /\ UNCHANGED <<platform, disk, requests, events, installed, extracts, xfailed, ffailed,
                 calls>>
  /\ UNCHANGED pureVars

\* the operation p stands before fails, and `?` returns the error
Fail(p) ==
  /\ CanFail(p)
  /\ faults < MaxFaults
  /\ faults' = faults + 1
  /\ Finish(p, ErrOf(p, IF pc[p] = "d_send" THEN 1 ELSE 0))
  /\ xfailed' = IF pc[p] \in {"x_open", "x_entry"}
                  THEN xfailed \cup {<<call[p].build, Comp(p)>>}
                  ELSE xfailed
  /\ ffailed' = EndedInFetch(p)
  /\ UNCHANGED <<platform, disk, installed, extracts, calls>>
  /\ UNCHANGED pureVars

\* the caller drops the call where it stands
Abandon(p) ==
  /\ pc[p] # "idle"
  /\ faults < MaxFaults
  /\ faults' = faults + 1
  /\ Finish(p, [ErrOf(p, 0) EXCEPT !.abandoned = TRUE])
  /\ ffailed' = EndedInFetch(p)
  /\ UNCHANGED <<platform, disk, installed, extracts, xfailed, calls>>
  /\ UNCHANGED pureVars

(***************************************************************************)
(* Specifications.                                                         *)
(***************************************************************************)
\* one step of a call in progress
Step(p) ==
  \/ DownloadMkdir(p)
  \/ DownloadExists(p)
  \/ DownloadCreate(p)
  \/ DownloadSend(p)
  \/ DownloadChunk(p)
  \/ DownloadWrite(p)
  \/ DownloadFlush(p)
  \/ ExtractOpen(p)
  \/ ExtractEntry(p)
  \/ DownloadRemove(p)
  \/ DownloadOk(p)
  \/ LinkExists(p)
  \/ LinkMkdir(p)
  \/ LinkReadDir(p)
  \/ LinkEntry(p)
  \/ LinkHardLink(p)
  \/ Fail(p)
  \/ Abandon(p)

\* one caller, whose calls follow one another
Callers == {1}

Next ==
  \E p \in Callers :
    \/ \E b \in Builds, S \in BackendSets : Install(p, b, S)
    \/ List(p)
    \/ \E b \in Builds : Delete(p, b)
    \/ Step(p)

Spec == Init /\ [][Next]_vars

\* two callers whose install calls overlap: one build, on Linux, with the
\* Server alone or with the CUDA backend
ConcBuild == <<0, 2>>

ConcBackendSets == {0, CUDA}

InitConc ==
  /\ platform = "linux"
  /\ InitCache
  /\ InitPure

NextConc ==
  \E p \in Procs :
    \/ \E S \in ConcBackendSets : Install(p, ConcBuild, S)
    \/ Step(p)

SpecConc == InitConc /\ [][NextConc]_vars

(***************************************************************************)
(* The pure functions, applied to inputs drawn from bounded sets: the text *)
(* of a Build, and the directory link() resolves for a component list.     *)
(***************************************************************************)
SampleLimbs ==
  (0..MaxSmall) \cup ((LimbBase - 1 - MaxSmall)..(LimbBase - 1))
    \cup {9, 10, 99, 100, 999, 1000, 6553, 6554, 6730, 9999, 10000, 25535, 25536}

SampleNumbers == {<<hi, lo>> : hi \in SampleLimbs, lo \in SampleLimbs}

Alphabet == {"b", "0", "1", "9", "+", "-", "x"}

SeqsUpTo(S, n) == UNION {[1..k -> S] : k \in 0..n}

InitText ==
  /\ platform \in Platforms
  /\ InitCache
  /\ parsed = NotParsed
  /\ resolved = <<>>
  /\ \/ /\ mode = "show"
        /\ number \in SampleNumbers
        /\ text = <<>>
        /\ given = <<>>
     \/ /\ mode = "parse"
        /\ number = U32Zero
        /\ text \in SeqsUpTo(Alphabet, MaxTextLen)
        /\ given = <<>>
     \/ /\ mode = "link"
        /\ number \in Builds
        /\ text = <<>>
        /\ given \in SeqsUpTo(Components, MaxComps) \X SeqsUpTo(Components, MaxComps)

\* build.to_string()
BuildShow ==
  /\ mode = "show"
  /\ mode' = "shown"
  /\ text' = BuildToString(number)
  /\ UNCHANGED <<platform, number, parsed, given, resolved>>
  /\ UNCHANGED cacheVars

\* text.parse::<Build>()
BuildParse ==
  /\ mode \in {"shown", "parse"}
  /\ mode' = IF mode = "shown" THEN "roundtrip" ELSE "parsed"
  /\ parsed' = LET r == BuildFromStr(text)
               IN  IF r.ok THEN r ELSE NotParsed
  /\ UNCHANGED <<platform, number, text, given, resolved>>
  /\ UNCHANGED cacheVars

\* Cache::new(build).link(components), as far as the path it resolves
LinkResolve ==
  /\ mode = "link"
  /\ mode' = "linked"
  /\ resolved' = <<LinkPath(platform, number, given[1]), LinkPath(platform, number, given[2])>>
  /\ UNCHANGED <<platform, number, text, parsed, given>>
  /\ UNCHANGED cacheVars

NextText == BuildShow \/ BuildParse \/ LinkResolve

SpecText == InitText /\ [][NextText]_vars

(***************************************************************************)
(* Properties.                                                             *)
(***************************************************************************)
InstallReturned(p) == ret[p].op = "install" /\ ret[p].ok

\* C1: when install(B, S) returns success after an earlier install(B, S)
\* returned success, with no delete of B since, the call has sent no HTTP
\* request and emitted no progress event, and it returns the executable path
\* the earlier call returned.
C1_SecondInstallIsCached ==
  \A p \in Procs :
    (InstallReturned(p) /\ ret[p].prior # {}) =>
      /\ ret[p].requests = 0
      /\ ret[p].events = <<>>
      /\ ret[p].prior = {ret[p].server.executable}

C1_Witness ==
  \E p \in Procs :
    /\ InstallReturned(p)
    /\ ret[p].prior # {}
    /\ platform = "linux"
    /\ ret[p].backends = CUDA + HIP

\* C2: whenever download(artifact) returns success, the component's
\* directory exists and holds exactly the contents of the artifact's archive.
C2_DownloadedDirectoryIsComplete ==
  \A p \in Procs :
    pc[p] = "d_ok" =>
      At(call[p].build, CompDir(p)) = DirOf(ArchiveContents(Comp(p)))

\* C3: a download() that follows a download of the same artifact that failed
\* in extraction fetches the archive again and returns success with the
\* component's directory holding the whole archive.
C3_RetryAfterFailedExtractionRefetches ==
  \A p \in Procs :
    (pc[p] = "d_ok" /\ local[p].retried) =>
      /\ local[p].fetched
      /\ At(call[p].build, CompDir(p)) = DirOf(ArchiveContents(Comp(p)))

\* C4, as claimed: between two deletes, extraction into the directory of a
\* (build, component) is started at most once.
C4_ExtractionStartedAtMostOnce ==
  \A b \in Builds, c \in Components : extracts[b][c] <= 1

InFetchPath(p) ==
  pc[p] \in {"d_create", "d_send", "d_chunk", "d_write", "d_flush", "x_open",
             "x_entry", "d_remove"}

\* C4, amended: a call fetches and extracts exactly when its own existence
\* check found the component's directory absent, and once an extraction has
\* started the directory exists, so that every later check finds it.
C4_ExtractionOnlyAfterMiss ==
  /\ \A p \in Procs :
       /\ InFetchPath(p) => ~local[p].hit
       /\ pc[p] = "d_ok" => (local[p].hit <=> ~local[p].fetched)
  /\ \A b \in Builds, c \in Components :
       extracts[b][c] >= 1 => TryExists(b, ComponentDirectory(c))

C4_Witness ==
  \E p, q \in Procs :
    /\ pc[p] = "x_entry"
    /\ pc[q] = "d_ok"
    /\ local[q].hit
    /\ Comp(p) = Comp(q)

\* C5: two component lists with the same set of components, Server listed or
\* not, in any order and with any repetition, resolve to the same composite
\* directory and the same executable path.
C5_SameSetSamePath ==
  (mode = "linked"
     /\ ToSet(given[1]) \cup {"Server"} = ToSet(given[2]) \cup {"Server"})
    => resolved[1] = resolved[2]

C5_Witness ==
  /\ mode = "linked"
  /\ given[1] = <<"Hip", "Cuda", "Hip">>
  /\ given[2] = <<"Server", "Cuda", "Hip">>
  /\ resolved[1][2] = <<"server", "-", "cuda", "-", "hip">>

BackendsNamed(S) ==
  CASE S = 0 -> {}
    [] S = 1 -> {"Cuda"}
    [] S = 2 -> {"Hip"}
    [] S = 3 -> {"Cuda", "Hip"}

\* C6: a successful install(B, S) has downloaded Server and exactly the
\* backends of S where backends are available, Server alone on macOS, and
\* the Server it returns stores S, or the empty set on macOS.
C6_StoredBackendsAreNormalized ==
  \A p \in Procs :
    InstallReturned(p) =>
      /\ ret[p].server.backends = (IF platform = "macos" THEN 0 ELSE ret[p].backends)
      /\ ToSet(ret[p].components)
           = {"Server"} \cup (IF platform = "macos" THEN {} ELSE BackendsNamed(ret[p].backends))
      /\ Len(ret[p].components) = Cardinality(ToSet(ret[p].components))

C6_Witness ==
  \E p \in Procs :
    /\ InstallReturned(p)
    /\ platform = "macos"
    /\ ret[p].backends = CUDA + HIP
    /\ ret[p].server.backends = 0

\* the builds whose directory exists, and those an install has succeeded for
BuildsOnDisk == {b \in Builds : disk[b].exists}
BuildsInstalled == {i.build : i \in installed}

ListReturned(p) == ret[p].op = "list" /\ ret[p].ok

RECURSIVE Ascending(_)
Ascending(builds) ==
  \/ Len(builds) <= 1
  \/ U32Less(builds[1], builds[2]) /\ Ascending(Tail(builds))

\* C7, as claimed: when the builds in the cache are those installed, list()
\* returns exactly them, each once, in ascending numeric order.
C7_ListIsAscending ==
  \A p \in Procs :
    (ListReturned(p) /\ BuildsOnDisk = BuildsInstalled) =>
      /\ ToSet(ret[p].listed) = BuildsInstalled
      /\ Ascending(ret[p].listed)

\* C7, amended: when the builds in the cache are those installed, list()
\* returns exactly them, each once (in the order read_dir yields them).
C7_ListIsExact ==
  \A p \in Procs :
    (ListReturned(p) /\ BuildsOnDisk = BuildsInstalled) =>
      /\ ToSet(ret[p].listed) = BuildsInstalled
      /\ Len(ret[p].listed) = Cardinality(BuildsInstalled)

C7_Witness ==
  \E p \in Procs :
    /\ ListReturned(p)
    /\ BuildsInstalled = Builds
    /\ Len(ret[p].listed) = 2

\* C8: after delete(B) has returned success, nothing is left of <root>/<B>
\* and no enumeration of the cache root makes list() return B.
C8_DeleteRemovesBuild ==
  \A p \in Procs :
    (ret[p].op = "delete" /\ ret[p].ok) =>
      /\ disk[ret[p].build] = NoBuildDir
      /\ \A order \in Orderings(ReadDir(RootEntries)) :
           ret[p].build \notin ToSet(ListBuilds(order))

C8_Witness ==
  \E p \in Procs :
    /\ ret[p].op = "delete"
    /\ ret[p].ok
    /\ {<<"server">>, <<"backend-", "cuda">>, <<"server", "-", "cuda">>} \subseteq ret[p].removed

\* C9: the text of Build(n) parses, and parses to Build(n).
C9_BuildRoundTrip ==
  mode = "roundtrip" => (parsed.ok /\ parsed.build = number)

C9_Witness ==
  /\ mode = "roundtrip"
  /\ number = <<LimbBase - 1, LimbBase - 1>>
  /\ text = <<"b", "4", "2", "9", "4", "9", "6", "7", "2", "9", "5">>

\* the decimal digits of a non-negative integer, and nothing else
IsPlainNumber(s) == s # <<>> /\ \A i \in 1..Len(s) : IsDigit(s[i])

\* C10: parsing fails when the text does not start with b, and when what
\* follows that one letter is not a plain non-negative integer.
C10_ParseRejectsMalformed ==
  (mode = "parsed" /\ (~StartsWith(text, "b") \/ ~IsPlainNumber(Tail(text))))
    => ~parsed.ok

\* the downloaded values of the events of artifact a among evs, in order
DownloadedOf(evs, a) ==
  LET own == SelectSeq(evs, LAMBDA e : e.artifact = a)
  IN  [i \in 1..Len(own) |-> own[i].downloaded]

\* a sequence of numbers that starts at 0 and never decreases
GrowsFromZero(d) ==
  d # <<>> => (d[1] = 0 /\ \A i \in 1..(Len(d) - 1) : d[i] <= d[i + 1])

InstallFailed(p) == ret[p].op = "install" /\ ~ret[p].ok /\ ~ret[p].abandoned

FetchStages == {"d_send", "d_chunk", "d_write", "d_flush"}

\* C11: the downloaded values of the progress events of one download start
\* at 0 and never decrease, and when the download has ended, in success or in
\* a failure of the transport or of a write, the value of the last event is
\* the number of bytes written to the archive.
C11_LastProgressIsWritten ==
  \A p \in Procs :
    /\ (pc[p] # "idle" /\ local[p].artifacts # <<>>) =>
         GrowsFromZero(DownloadedOf(events[p], Artifact(p)))
    /\ pc[p] = "x_open" =>
         LET d == DownloadedOf(events[p], Artifact(p))
         IN  d # <<>> /\ d[Len(d)] = local[p].written
    /\ (InstallFailed(p) /\ ret[p].stage \in FetchStages) =>
         LET d == DownloadedOf(ret[p].events, ret[p].artifact)
         IN  GrowsFromZero(d) /\ (d # <<>> => d[Len(d)] = ret[p].written)

DownloadStages ==
  {"d_mkdir", "d_exists", "d_create", "d_send", "d_chunk", "d_write", "d_flush",
   "x_open", "x_entry", "d_remove"}

\* C12: when the calls that download a component overlap and no fault is
\* injected, no call fails in download(), and once all have returned success
\* the directory of every component they downloaded holds exactly the
\* contents of its archive.
C12_OverlappingDownloadsSucceed ==
  faults = 0 =>
    /\ \A p \in Procs : InstallFailed(p) => ret[p].stage \notin DownloadStages
    /\ (\A p \in Procs : InstallReturned(p)) =>
         \A p \in Procs : \A c \in ToSet(ret[p].components) :
           At(ret[p].build, ComponentDirectory(c)) = DirOf(ArchiveContents(c))

LinkStages == {"l_exists", "l_mkdir", "l_readdir", "l_entry", "l_link"}

\* C13: when link() calls for the same components overlap, with every
\* component extracted and no fault injected, none of them returns an error.
C13_OverlappingLinksSucceed ==
  faults = 0 =>
    \A p \in Procs :
      (/\ InstallFailed(p)
       /\ \A c \in ToSet(ret[p].components) :
            TryExists(ret[p].build, ComponentDirectory(c)))
        => ret[p].stage \notin LinkStages

\* the composite directory holds an entry for every file of every component
\* of `components`, as the directories of build b stand
CompositeFilled(b, composite, components) ==
  \A c \in ToSet(components) :
    \A e \in At(b, ComponentDirectory(c)).entries :
      IsFile(e) => HasName(At(b, composite).entries, e.name)

\* C14: when an install ended, by an error or by being abandoned, after its
\* link() had created the composite directory, the next install of the same
\* build and backends that returns success leaves a composite directory with
\* an entry for every file of every component of the set.
C14_RetriedLinkFillsComposite ==
  \A p \in Procs :
    (InstallReturned(p) /\ ret[p].relink) =>
      CompositeFilled(ret[p].build, ret[p].server.executable[2], ret[p].components)

RECURSIVE BackendNames(_)
\* the names of the backends of a sorted component list, without the Server
BackendNames(list) ==
  IF list = <<>> THEN <<>>
  ELSE (IF Head(list) = "Server" THEN <<>>
        ELSE <<Tail(ComponentDirectory(Head(list)))>>)
         \o BackendNames(Tail(list))

\* C15, as claimed: the composite directory is named by the backends alone,
\* in component order, without the backend- prefix and joined by -, so that
\* Server with CUDA is named cuda and Server with CUDA and HIP cuda-hip.
C15_NamedByBackendsAlone ==
  mode = "linked" =>
    resolved[1][2] = Join(BackendNames(SortedByRank(ToSet(given[1]) \cup {"Server"})), "-")

\* C15, amended: the composite directory is named by the directory names of
\* all the components of the set, the Server's included, in component order,
\* the backend- prefix stripped, joined by -.
C15_NamedByAllComponents ==
  mode = "linked" =>
    LET set == ToSet(given[1]) \cup {"Server"}
    IN  resolved[1][2] =
          <<"server">>
            \o (IF "Cuda" \in set THEN <<"-", "cuda">> ELSE <<>>)
            \o (IF "Hip" \in set THEN <<"-", "hip">> ELSE <<>>)

C15_Witness ==
  /\ mode = "linked"
  /\ given[1] = <<"Cuda">>
  /\ resolved[1][2] = <<"server", "-", "cuda">>

\* the regular files among `entries`, each name once, from the first
\* component in component order that has it
FirstOfEachName(entries) ==
  {e \in entries :
     /\ e.kind = "file"
     /\ \A f \in entries :
          (f.kind = "file" /\ f.name = e.name) =>
            ComponentRank(e.from) <= ComponentRank(f.from)}

\* what the directories of the components of `components` hold in build b
EntriesOf(b, components) ==
  UNION {At(b, ComponentDirectory(c)).entries : c \in ToSet(components)}

\* C16: when link() has created the composite directory and the install
\* returns success, the composite holds exactly the regular files of the
\* directories of the components of the set, which are those link() found
\* there, one entry for each name, linked to the file of the first component
\* in component order that has the name; no directory of a component is
\* linked.
C16_CompositeHoldsFirstOfEachName ==
  \A p \in Procs :
    (InstallReturned(p) /\ ret[p].made) =>
      LET composite == At(ret[p].build, ret[p].server.executable[2])
      IN  /\ composite.kind = "dir"
          /\ ret[p].seen = EntriesOf(ret[p].build, ret[p].components)
          /\ composite.entries = FirstOfEachName(ret[p].seen)
          /\ \A e, f \in composite.entries : e.name = f.name => e = f

C16_Witness ==
  \E p \in Procs :
    /\ InstallReturned(p)
    /\ ret[p].made
    /\ ret[p].components = <<"Server", "Cuda", "Hip">>
    /\ LET composite == At(ret[p].build, ret[p].server.executable[2])
       IN  /\ [name |-> "libggml", kind |-> "file", from |-> "Server"] \in composite.entries
           /\ [name |-> "libggml-hip", kind |-> "file", from |-> "Hip"] \in composite.entries
           /\ ~HasName(composite.entries, "kernels")
           /\ HasName(At(ret[p].build, ComponentDirectory("Cuda")).entries, "kernels")

\* Server, then CUDA, then HIP: the components an install of backends S
\* downloads on the platform, in the order claimed
ExpectedComponents(S) ==
  <<"Server">>
    \o (IF platform # "macos" /\ "Cuda" \in BackendsNamed(S) THEN <<"Cuda">> ELSE <<>>)
    \o (IF platform # "macos" /\ "Hip" \in BackendsNamed(S) THEN <<"Hip">> ELSE <<>>)

IsPrefix(s, t) == Len(s) <= Len(t) /\ \A i \in 1..Len(s) : s[i] = t[i]

\* the events of one artifact all come before those of the next
TagsInOrder(evs) ==
  \A i, j \in 1..Len(evs) :
    i < j => ComponentRank(ComponentOf(evs[i].artifact))
               <= ComponentRank(ComponentOf(evs[j].artifact))

\* C17: an install downloads its artifacts one after another, Server first,
\* then CUDA, then HIP; every event it has emitted is tagged with an artifact
\* already downloaded or with the one under download, the events of one
\* artifact before those of the next; link() is called once, after every
\* download has returned success.
C17_DownloadsInOrderThenLink ==
  \A p \in Procs :
    /\ (pc[p] # "idle" /\ call[p].op = "install") =>
         LET expected == ExpectedComponents(call[p].backends)
             done == local[p].components
         IN  /\ IsPrefix(done, expected)
             /\ TagsInOrder(events[p])
             /\ pc[p] \in DownloadStages \cup {"d_ok"} =>
                  /\ local[p].links = 0
                  /\ Len(done) < Len(expected)
                  /\ Comp(p) = expected[Len(done) + 1]
                  /\ \A i \in 1..Len(events[p]) :
                       ComponentOf(events[p][i].artifact) \in ToSet(done) \cup {Comp(p)}
             /\ pc[p] \in LinkStages =>
                  /\ local[p].links = 1
                  /\ done = expected
    /\ InstallReturned(p) =>
         /\ ret[p].links = 1
         /\ ret[p].components = ExpectedComponents(ret[p].backends)
         /\ TagsInOrder(ret[p].events)

C17_Witness ==
  \E p \in Procs :
    /\ InstallReturned(p)
    /\ ret[p].components = <<"Server", "Cuda", "Hip">>
    /\ ret[p].requests = 3
    /\ ret[p].events[1].artifact = "ServerArtifact"
    /\ ret[p].events[Len(ret[p].events)].artifact = "HipArtifact"

\* strictly increasing: no value is reported twice
Increasing(d) == \A i \in 1..(Len(d) - 1) : d[i] < d[i + 1]

\* what holds of an install that has returned the failure of a download
FailedInDownload(p) ==
  LET b == ret[p].build
      failed == ComponentOf(ret[p].artifact)
  IN  /\ ret[p].links = 0
      /\ ~ret[p].made
      /\ \A n \in LinkedNames : At(b, n) = ret[p].before[n]
      /\ ret[p].requests <= Len(ret[p].components) + 1
      /\ Increasing(DownloadedOf(ret[p].events, ret[p].artifact))
      /\ IsPrefix(Append(ret[p].components, failed), ExpectedComponents(ret[p].backends))
      /\ \A i \in 1..Len(ret[p].events) :
           ComponentOf(ret[p].events[i].artifact) \in ToSet(ret[p].components) \cup {failed}
      /\ \A c \in ToSet(ret[p].components) :
           At(b, ComponentDirectory(c)).kind = "dir"

C19_RefetchOverwritesPartialArchive ==
  /\ \A x \in ffailed : ~TryExists(x[1], ComponentDirectory(x[2]))
  /\ \A p \in Procs :
       (pc[p] \in DownloadStages \cup {"d_ok"} /\ local[p].refetch) =>
         LET b == call[p].build
         IN  /\ pc[p] \notin {"d_mkdir", "d_exists"} => ~local[p].hit
             /\ pc[p] = "d_send" => At(b, CompZip(p)) = FileOf(<<>>)
             /\ pc[p] = "x_open" => At(b, CompZip(p)) = FileOf(WholeArchive)
             /\ pc[p] = "d_ok" =>
                  /\ local[p].fetched
                  /\ At(b, CompDir(p)) = DirOf(ArchiveContents(Comp(p)))
                  /\ ~TryExists(b, CompZip(p))

C19_Witness ==
  \E p \in Procs :
    /\ pc[p] = "d_ok"
    /\ local[p].refetch
    /\ local[p].fetched
    /\ Comp(p) = "Cuda"
    /\ At(call[p].build, CompDir(p)) = DirOf(ArchiveContents("Cuda"))

ComponentDirectories == {ComponentDirectory(c) : c \in Components}

\* C20, as claimed: the executable a successful install returns lies in a
\* composite directory of the build that is the extracted directory of no
\* component.
C20_CompositeIsNoComponentDirectory ==
  \A p \in Procs :
    InstallReturned(p) =>
      /\ ret[p].server.executable[1] = BuildToString(ret[p].build)
      /\ ret[p].server.executable[2] \notin ComponentDirectories

\* C20, amended: the executable a successful install returns lies, under
\* the build root, in a composite directory that is the extracted directory
\* of no component when the set holds a backend, and in the Server's own
\* extracted directory, with nothing made by link(), when the set is the
\* Server alone.
C20_CompositeApartUnlessServerAlone ==
  \A p \in Procs :
    InstallReturned(p) =>
      /\ ret[p].server.executable[1] = BuildToString(ret[p].build)
      /\ IF ret[p].components = <<"Server">>
           THEN /\ ret[p].server.executable[2] = ComponentDirectory("Server")
                /\ ~ret[p].made
           ELSE /\ ret[p].server.executable[2] \notin ComponentDirectories
                /\ ret[p].server.executable[2] \in LinkedNames
                /\ At(ret[p].build, ret[p].server.executable[2]).kind = "dir"

C20_Witness ==
  \E p \in Procs :
    /\ InstallReturned(p)
    /\ ret[p].made
    /\ ret[p].components = <<"Server", "Hip">>
    /\ ret[p].server.executable = <<<<"b", "1", "0">>, <<"server", "-", "hip">>, "llama-server">>

\* the builds that the names of the directories among `entries` parse to
BuildsNamedBy(entries) ==
  {BuildFromStr(e.name).build :
     e \in {x \in entries : x.kind = "dir" /\ BuildFromStr(x.name).ok}}

\* C21: list() returns a build exactly when a directory whose name parses
\* as that build lies in the cache root; a call of install has made the
\* directory of its build before it sends a request, and after an install
\* that failed or was abandoned past that point, whatever it had extracted,
\* every enumeration of the root makes list() return the build.
C21_ListReturnsBuildDirectories ==
  \A p \in Procs :
    /\ ListReturned(p) =>
         /\ ToSet(ret[p].listed) = BuildsNamedBy(ret[p].root)
         /\ ToSet(ret[p].listed) = BuildsOnDisk
    /\ (call[p].op = "install" /\ pc[p] # "d_mkdir") => disk[call[p].build].exists
    /\ (ret[p].op = "install" /\ ~ret[p].ok /\ ret[p].stage # "d_mkdir") =>
         \A order \in Orderings(ReadDir(RootEntries)) :
           ret[p].build \in ToSet(ListBuilds(order))

C21_Witness ==
  \E p \in Procs :
    /\ ListReturned(p)
    /\ ret[p].listed = <<<<0, 2>>>>
    /\ ForeignEntries \subseteq ret[p].root
    /\ installed = {}
    /\ faults = 1
    /\ \A c \in Components : ~TryExists(<<0, 2>>, ComponentDirectory(c))
====
